---- MODULE Spec2Model ----
(***************************************************************************)
(* Model of MayaUnrealTurntablePublishPlugin                               *)
(* (hooks/tk-multi-publish2/tk-maya/basic/publish_turntable.py).           *)
(*                                                                         *)
(* Strings are sequences of tokens: a path such as /proj/foo_v3.ma is      *)
(* <<"/", "proj", "/", "foo", "_v", "3", ".", "ma">>.  The empty sequence  *)
(* stands for both the empty string and None (both are falsy in the code). *)
(* A Toolkit template is a sequence of elements: literals, separators and  *)
(* {key} fields.                                                           *)
(***************************************************************************)
EXTENDS Integers, Sequences, FiniteSets, TLC

VARIABLES
    pc,                     \* lifecycle stage the host is about to call
    platform,               \* sys.platform
    session_path,           \* what cmds.file(query=True, sn=True) returns
    settings,               \* the settings bag: setting name -> value
    store,                  \* UserSettings project-scoped store: saved name -> value
    properties,             \* item.properties
    local_properties,       \* item.local_properties
    context_change_allowed, \* item.context_change_allowed
    acceptRet,              \* the dictionary accept returned
    validateRet,            \* "none", "True", "False" or "raised"
    validateExit,           \* the place where validate returned or raised
    scanned,                \* what software_launcher.scan_software() returned
    workspace,              \* cmds.workspace(q=True, openWorkspace=True)
    movie_rule,             \* cmds.workspace(fileRuleEntry="movie")
    parent_properties,      \* item.parent.properties
    disk,                   \* the temp directories and files publish made, and the movie
    movie_origin,           \* "none", "stale" or "rendered": where the movie file comes from
    calls,                  \* the engine and tracking-service calls made so far, in order
    sg,                     \* the records the tracking service holds for this item
    publishRet,             \* "none", "returned", "False" or "raised"
    publishExit,            \* the place where publish returned or raised
    log_level,              \* self.logger.getEffectiveLevel() at finalize
    finalizeRet,            \* "none", "returned" or "raised"
    finalizeExit,           \* the place where finalize returned or raised
    os_environ,             \* os.environ of the host process
    call_fn,                \* the helper called on its own, "none" before the call
    call_arg,               \* its argument
    call_result             \* what it returned

vars == <<pc, platform, session_path, settings, store, properties,
          local_properties, context_change_allowed, acceptRet, validateRet,
          validateExit, scanned, workspace, movie_rule, parent_properties, disk,
          movie_origin, calls, sg, publishRet, publishExit, log_level, finalizeRet,
          finalizeExit, os_environ, call_fn, call_arg, call_result>>

\* what accept and validate leave alone
publishVars == <<parent_properties, disk, movie_origin, calls, sg, publishRet, publishExit,
                 log_level, finalizeRet, finalizeExit, os_environ>>

\* what the lifecycle of the item leaves alone
callVars == <<call_fn, call_arg, call_result>>

\* what publish and finalize leave alone
validateVars == <<platform, session_path, settings, store, context_change_allowed, acceptRet,
                  validateRet, validateExit, scanned, workspace, movie_rule>>

-----------------------------------------------------------------------------
(* Bounds *)

MaxVersions == 2

\* the longest version string a helper is called with, in tokens
MaxVersionLen == 5

\* the most software versions one scan returns to get_unreal_versions called alone
MaxScanned == 3

-----------------------------------------------------------------------------
(* Generic helpers: dictionaries and strings *)

Range(s) == {s[i] : i \in 1..Len(s)}

\* d[k] = v
Put(d, k, v) == [x \in (DOMAIN d) \cup {k} |-> IF x = k THEN v ELSE d[x]]

\* d.get(k): the empty value when the key is absent
Get(d, k) == IF k \in DOMAIN d THEN d[k] ELSE <<>>

EmptyDict == [x \in {} |-> <<>>]

FirstIndex(s, tok) == CHOOSE i \in 1..Len(s) : s[i] = tok /\ \A j \in 1..(i - 1) : s[j] # tok

\* str.split(sep, maxsplit); maxsplit = -1 is unlimited
RECURSIVE split(_, _, _)
split(s, sep, maxsplit) ==
    IF maxsplit = 0 \/ sep \notin Range(s)
    THEN <<s>>
    ELSE LET i == FirstIndex(s, sep)
         IN  <<SubSeq(s, 1, i - 1)>> \o split(SubSeq(s, i + 1, Len(s)), sep, maxsplit - 1)

\* sep.join(parts)
RECURSIVE join(_, _)
join(sep, parts) ==
    IF parts = <<>> THEN <<>>
    ELSE IF Len(parts) = 1 THEN parts[1]
    ELSE parts[1] \o <<sep>> \o join(sep, Tail(parts))

\* str.replace(old, new) for a one-token old
RECURSIVE replace(_, _, _)
replace(s, old, new) ==
    IF s = <<>> THEN <<>>
    ELSE (IF Head(s) = old THEN new ELSE <<Head(s)>>) \o replace(Tail(s), old, new)

-----------------------------------------------------------------------------
(* Paths *)

os_sep == IF platform = "win32" THEN "\\" ELSE "/"

\* the separators os.path recognises on this platform
path_seps == IF platform = "win32" THEN {"/", "\\"} ELSE {"/"}

\* sgtk.util.ShotgunPath.normalize: separators become the platform's own
\* and a trailing separator is dropped
ShotgunPath_normalize(p) ==
    LET q == [i \in 1..Len(p) |-> IF p[i] \in {"/", "\\"} THEN os_sep ELSE p[i]]
    IN  IF Len(q) > 1 /\ q[Len(q)] = os_sep THEN SubSeq(q, 1, Len(q) - 1) ELSE q

\* os.path.normpath: on win32 forward slashes become backslashes; doubled
\* separators collapse
RECURSIVE collapse(_)
collapse(p) ==
    IF Len(p) < 2 THEN p
    ELSE IF p[1] \in path_seps /\ p[2] \in path_seps THEN collapse(Tail(p))
    ELSE <<p[1]>> \o collapse(Tail(p))

os_path_normpath(p) ==
    collapse([i \in 1..Len(p) |-> IF p[i] \in path_seps THEN os_sep ELSE p[i]])

os_path_join(a, b) == a \o <<os_sep>> \o b

os_path_basename(p) ==
    LET idx == {i \in 1..Len(p) : p[i] \in path_seps}
    IN  IF idx = {} THEN p
        ELSE SubSeq(p, (CHOOSE i \in idx : \A j \in idx : j <= i) + 1, Len(p))

\* os.path.splitext(p)[0]
os_path_splitext_root(p) ==
    IF Len(p) >= 3 /\ p[Len(p) - 1] = "." /\ p[Len(p) - 2] \notin path_seps
    THEN SubSeq(p, 1, Len(p) - 2)
    ELSE p

\* the file system compares paths regardless of the separator written
canon(p) == [i \in 1..Len(p) |-> IF p[i] = "\\" THEN "/" ELSE p[i]]

-----------------------------------------------------------------------------
(* The disk *)

UE50Exe == <<"/", "UE_5.0", "/", "UnrealEditor">>
UE426Exe == <<"/", "UE_4.26", "/", "UE4Editor">>
GoneExe == <<"/", "UE_4.27", "/", "UE4Editor">>

ConfigDir == <<"/", "config">>
EngineDir == <<"/", "tk-maya">>
FrameworkDir == <<"/", "tk-framework-unrealqt">>

Project50 == ConfigDir \o <<"/", "unreal", "/", "5", ".", "0", "/", "turntable.uproject">>
UserProject == <<"/", "projects", "/", "tt", "/", "tt.uproject">>
UserProjectDir == <<"/", "projects", "/", "tt">>

Files == {UE50Exe, UE426Exe, Project50, UserProject}
Directories == {UserProjectDir, ConfigDir}

os_path_exists(p) == canon(p) \in Files \cup Directories
os_path_isfile(p) == canon(p) \in Files

-----------------------------------------------------------------------------
(* Toolkit templates *)

Lit(s) == [k |-> "lit", v |-> s]
Key(s) == [k |-> "key", v |-> s]
SepT == [k |-> "sep", v |-> "/"]

TemplateKeys(t) == {t[i].v : i \in {j \in 1..Len(t) : t[j].k = "key"}}

\* template.get_fields(path): fails (TankError) when the path does not match
template_matches(t, path) ==
    /\ Len(t) = Len(path)
    /\ \A i \in 1..Len(t) :
          CASE t[i].k = "lit" -> path[i] = t[i].v
            [] t[i].k = "sep" -> path[i] = os_sep
            [] OTHER -> path[i] \notin {"/", "\\", "."}

template_get_fields(t, path) ==
    [key \in TemplateKeys(t) |-> path[CHOOSE i \in 1..Len(t) : t[i] = Key(key)]]

\* template.missing_keys(fields)
template_missing_keys(t, fields) == TemplateKeys(t) \ DOMAIN fields

\* template.apply_fields(fields)
template_apply_fields(t, fields) ==
    [i \in 1..Len(t) |->
        CASE t[i].k = "lit" -> t[i].v
          [] t[i].k = "sep" -> os_sep
          [] OTHER -> fields[t[i].v]]

\* work templates a collector may have put on the item
WorkTemplateVersioned ==
    <<SepT, Lit("proj"), SepT, Key("name"), Lit("_v"), Key("version"), Lit("."), Lit("ma")>>
WorkTemplateUnversioned ==
    <<SepT, Lit("proj"), SepT, Key("name"), Lit("_v"), Lit("3"), Lit("."), Lit("ma")>>

\* publish templates of templates.yml, by name
PublishTemplates ==
    [n \in {<<"turntable_publish">>, <<"literal_publish">>, <<"named_publish">>} |->
        CASE n = <<"turntable_publish">> ->
                <<SepT, Lit("pub"), SepT, Key("name"), Lit("_v"), Key("version"),
                  Lit("."), Key("ue_mov_ext")>>
          [] n = <<"literal_publish">> ->
                <<Lit("name"), Lit("_v"), Key("version"), Lit("."), Lit("mov")>>
          [] OTHER ->
                <<Key("name"), Lit("_v"), Key("version"), Lit("."), Lit("mov")>>]

\* publisher.get_template_by_name(name): None when the name is unknown
get_template_by_name(name) ==
    IF name \in DOMAIN PublishTemplates THEN PublishTemplates[name] ELSE <<>>

-----------------------------------------------------------------------------
(* Saved settings *)

\* MayaUnrealTurntablePublishPlugin._save_settings
save_settings ==
    <<  <<"Unreal Engine Version", "publish2.unreal_engine_version">>,
        <<"Unreal Engine Path", "publish2.unreal_engine_path">>,
        <<"Unreal Project Path", "publish2.turntable.unreal_project_path">>,
        <<"Turntable Map Path", "publish2.turntable.map_path">>,
        <<"Sequence Path", "publish2.turntable.sequence_path">>,
        <<"Turntable Assets Path", "publish2.turntable.assets_path">> >>

SavedNames == {save_settings[i][1] : i \in 1..Len(save_settings)}
SavedKey(name) == save_settings[CHOOSE i \in 1..Len(save_settings) : save_settings[i][1] = name][2]

\* settings_manager.retrieve(saved_name, default, SCOPE_PROJECT)
settings_manager_retrieve(st, saved_name, default) ==
    IF saved_name \in DOMAIN st THEN st[saved_name] ELSE default

\* variant: the saved values are never applied
load_saved_ui_settings_ignoring_store(s, st) == s

load_saved_ui_settings(s, st) ==
    [name \in DOMAIN s |->
        IF name \in SavedNames
        THEN settings_manager_retrieve(st, SavedKey(name), s[name])
        ELSE s[name]]

save_ui_settings(s, st) ==
    [k \in (DOMAIN st) \cup {SavedKey(name) : name \in SavedNames} |->
        IF \E name \in SavedNames : SavedKey(name) = k
        THEN s[CHOOSE name \in SavedNames : SavedKey(name) = k]
        ELSE st[k]]

-----------------------------------------------------------------------------
(* Unreal versions *)

\* SoftwareVersion records the launcher may discover
SoftwareVersions ==
    { [display_name |-> <<"Unreal Engine ", "5.0">>,
       version |-> <<"5", ".", "0", ".", "2">>, path |-> UE50Exe],
      [display_name |-> <<"Unreal Engine ", "4.27", " ", "(Dev Build)">>,
       version |-> <<"4", ".", "27", ".", "1">>, path |-> GoneExe],
      [display_name |-> <<"Unreal Engine ", "4.26">>,
       version |-> <<"4", ".", "26", ".", "2">>, path |-> UE426Exe] }

ScanResults == UNION {[1..n -> SoftwareVersions] : n \in 0..MaxVersions}

IsDevBuild(software_version) == "(Dev Build)" \in Range(software_version.display_name)
IsNotDevBuild(software_version) == ~IsDevBuild(software_version)

\* variant: the dev builds come first
get_unreal_versions_dev_first(software_versions) ==
    SelectSeq(software_versions, IsDevBuild) \o SelectSeq(software_versions, IsNotDevBuild)

get_unreal_versions(software_versions) ==
    SelectSeq(software_versions, IsNotDevBuild) \o SelectSeq(software_versions, IsDevBuild)

\* variant: only the major component is kept
_short_version_major_only(version) ==
    LET parts == split(version, ".", 2)
    IN  IF Len(parts) > 2 THEN parts[1] ELSE version

_short_version(version) ==
    LET parts == split(version, ".", 2)
    IN  IF Len(parts) > 2 THEN join(".", SubSeq(parts, 1, 2)) ELSE version

\* variant: the existence check on disk is left out
exec_path_usable_unchecked(unreal_exec_path) == unreal_exec_path # <<>>

exec_path_usable(unreal_exec_path) ==
    unreal_exec_path # <<>> /\ os_path_exists(unreal_exec_path)

\* variant: the configured version is kept when no detected version matches
get_unreal_exec_property_keeping_version(s, props, software_versions) ==
    LET unreal_exec_path0 == s["Unreal Engine Path"]
        unreal_engine_version0 == s["Unreal Engine Version"]
        short_engine_version == _short_version(unreal_engine_version0)
        unreal_versions == get_unreal_versions(software_versions)
        matching == {i \in 1..Len(unreal_versions) :
                        _short_version(unreal_versions[i].version) = short_engine_version}
        first == CHOOSE i \in matching : \A j \in matching : i <= j
        unreal_exec_path ==
            IF unreal_exec_path0 # <<>> THEN unreal_exec_path0
            ELSE IF matching # {} THEN unreal_versions[first].path
            ELSE unreal_versions[1].path
        unreal_engine_version == unreal_engine_version0
    IN  IF unreal_exec_path0 = <<>> /\ unreal_versions = <<>>
        THEN [raised |-> TRUE, props |-> props]
        ELSE IF ~exec_path_usable(unreal_exec_path)
        THEN [raised |-> TRUE, props |-> props]
        ELSE [raised |-> FALSE,
              props |-> Put(Put(props, "unreal_exec_path", unreal_exec_path),
                            "unreal_engine_version", unreal_engine_version)]

get_unreal_exec_property(s, props, software_versions) ==
    LET unreal_exec_path0 == s["Unreal Engine Path"]
        unreal_engine_version0 == s["Unreal Engine Version"]
        short_engine_version == _short_version(unreal_engine_version0)
        unreal_versions == get_unreal_versions(software_versions)
        matching == {i \in 1..Len(unreal_versions) :
                        _short_version(unreal_versions[i].version) = short_engine_version}
        first == CHOOSE i \in matching : \A j \in matching : i <= j
        unreal_exec_path ==
            IF unreal_exec_path0 # <<>> THEN unreal_exec_path0
            ELSE IF matching # {} THEN unreal_versions[first].path
            ELSE unreal_versions[1].path
        unreal_engine_version ==
            IF unreal_exec_path0 # <<>> \/ matching # {} THEN unreal_engine_version0
            ELSE unreal_versions[1].version
    IN  IF unreal_exec_path0 = <<>> /\ unreal_versions = <<>>
        THEN [raised |-> TRUE, props |-> props]
        ELSE IF ~exec_path_usable(unreal_exec_path)
        THEN [raised |-> TRUE, props |-> props]
        ELSE [raised |-> FALSE,
              props |-> Put(Put(props, "unreal_exec_path", unreal_exec_path),
                            "unreal_engine_version", unreal_engine_version)]

\* variant: {self} is left in the path
evaluate_unreal_project_path_without_self(unreal_project_path_template, unreal_engine_version) ==
    IF unreal_project_path_template = <<>> THEN <<>>
    ELSE IF unreal_engine_version = <<>> THEN <<>>
    ELSE LET short_version == join(".", SubSeq(split(unreal_engine_version, ".", -1), 1,
                                   IF Len(split(unreal_engine_version, ".", -1)) < 2
                                   THEN Len(split(unreal_engine_version, ".", -1)) ELSE 2))
         IN  os_path_normpath(
                replace(replace(replace(unreal_project_path_template,
                    "{config}", ConfigDir),
                    "{engine}", EngineDir),
                    "{unreal_engine_version}", short_version))

evaluate_unreal_project_path(unreal_project_path_template, unreal_engine_version) ==
    IF unreal_project_path_template = <<>> THEN <<>>
    ELSE IF unreal_engine_version = <<>> THEN <<>>
    ELSE LET short_version == join(".", SubSeq(split(unreal_engine_version, ".", -1), 1,
                                   IF Len(split(unreal_engine_version, ".", -1)) < 2
                                   THEN Len(split(unreal_engine_version, ".", -1)) ELSE 2))
         IN  os_path_normpath(
                replace(replace(replace(replace(unreal_project_path_template,
                    "{config}", ConfigDir),
                    "{engine}", EngineDir),
                    "{unreal_engine_version}", short_version),
                    "{self}", FrameworkDir))

\* variant: any existing path is taken, file or not
get_unreal_project_property_any_path(s, props) ==
    LET unreal_project_path0 == s["Unreal Project Path"]
        unreal_project_path ==
            IF unreal_project_path0 = <<>>
            THEN evaluate_unreal_project_path(s["Unreal Project Path Template"],
                                              props["unreal_engine_version"])
            ELSE unreal_project_path0
    IN  IF unreal_project_path = <<>>
        THEN [raised |-> TRUE, props |-> props]
        ELSE IF ~os_path_exists(unreal_project_path)
        THEN [raised |-> TRUE, props |-> props]
        ELSE [raised |-> FALSE, props |-> Put(props, "unreal_project_path", unreal_project_path)]

get_unreal_project_property(s, props) ==
    LET unreal_project_path0 == s["Unreal Project Path"]
        unreal_project_path ==
            IF unreal_project_path0 = <<>>
            THEN evaluate_unreal_project_path(s["Unreal Project Path Template"],
                                              props["unreal_engine_version"])
            ELSE unreal_project_path0
    IN  IF unreal_project_path = <<>>
        THEN [raised |-> TRUE, props |-> props]
        ELSE IF ~os_path_isfile(unreal_project_path)
        THEN [raised |-> TRUE, props |-> props]
        ELSE [raised |-> FALSE, props |-> Put(props, "unreal_project_path", unreal_project_path)]

-----------------------------------------------------------------------------
(* validate *)

\* variant: the saved-session check is left out
session_saved_unchecked(path) == TRUE

session_saved(path) == path # <<>>

\* variant: the platform is not consulted
ue_mov_ext_always_mov == "mov"

\* the extension injected as the 'ue_mov_ext' template field and used for the
\* workspace-derived movie name
ue_mov_ext == IF platform = "win32" THEN "avi" ELSE "mov"

\* variant: the work file's version is not carried over to publish_version
derive_from_templates_without_version(work_template, publish_template, path, props, lprops) ==
    IF ~template_matches(work_template, path)
    THEN [ret |-> "raised", exit |-> "get_fields", props |-> props, lprops |-> lprops]
    ELSE LET work_fields == Put(template_get_fields(work_template, path),
                                "ue_mov_ext", IF platform = "win32" THEN "avi" ELSE "mov")
         IN  IF template_missing_keys(publish_template, work_fields) # {}
             THEN [ret |-> "False", exit |-> "missing_keys", props |-> props, lprops |-> lprops]
             ELSE [ret |-> "none", exit |-> "ok", props |-> props,
                   lprops |-> Put(lprops, "publish_path",
                                  template_apply_fields(publish_template, work_fields))]

\* validate, template branch
derive_from_templates(work_template, publish_template, path, props, lprops) ==
    IF ~template_matches(work_template, path)
    THEN [ret |-> "raised", exit |-> "get_fields", props |-> props, lprops |-> lprops]
    ELSE LET work_fields == Put(template_get_fields(work_template, path),
                                "ue_mov_ext", ue_mov_ext)
         IN  IF template_missing_keys(publish_template, work_fields) # {}
             THEN [ret |-> "False", exit |-> "missing_keys", props |-> props, lprops |-> lprops]
             ELSE [ret |-> "none", exit |-> "ok",
                   props |-> IF "version" \in DOMAIN work_fields
                             THEN Put(props, "publish_version", work_fields["version"])
                             ELSE props,
                   lprops |-> Put(lprops, "publish_path",
                                  template_apply_fields(publish_template, work_fields))]

\* cmds.workspace(expandName=rel): Maya answers with forward slashes
workspace_expandName(ws, rel) == ws \o <<"/">> \o rel

\* variant: the workspace's movie rule is not consulted
derive_from_workspace_ignoring_rule(path, props, lprops, ws, rule) ==
    IF ws = <<>>
    THEN [ret |-> "False", exit |-> "workspace", props |-> props, lprops |-> lprops]
    ELSE LET movie_dir == workspace_expandName(ws, os_path_join(<<"data">>, <<"publishes">>))
             base_name == os_path_splitext_root(os_path_basename(path)) \o <<".", ue_mov_ext>>
         IN  [ret |-> "none", exit |-> "ok", props |-> props,
              lprops |-> Put(lprops, "publish_path", os_path_join(movie_dir, base_name))]

\* validate, workspace branch
derive_from_workspace(path, props, lprops, ws, rule) ==
    IF ws = <<>>
    THEN [ret |-> "False", exit |-> "workspace", props |-> props, lprops |-> lprops]
    ELSE LET movie_dir0 == IF rule # <<>> THEN rule ELSE <<"data">>
             movie_dir == workspace_expandName(ws, os_path_join(movie_dir0, <<"publishes">>))
             base_name == os_path_splitext_root(os_path_basename(path)) \o <<".", ue_mov_ext>>
         IN  [ret |-> "none", exit |-> "ok", props |-> props,
              lprops |-> Put(lprops, "publish_path", os_path_join(movie_dir, base_name))]

\* variant: the sequence path is checked but not stashed on the item
validate_data_settings_dropping_sequence(s, props, st) ==
    IF s["Turntable Map Path"] = <<>>
    THEN [ret |-> "False", exit |-> "map", props |-> props, store |-> st]
    ELSE LET props1 == Put(props, "turntable_map_path", s["Turntable Map Path"])
         IN  IF s["Sequence Path"] = <<>>
             THEN [ret |-> "False", exit |-> "sequence", props |-> props1, store |-> st]
             ELSE IF s["Turntable Assets Path"] = <<>>
             THEN [ret |-> "False", exit |-> "assets", props |-> props1, store |-> st]
             ELSE [ret |-> "True", exit |-> "ok",
                   props |-> Put(props1, "turntable_assets_path", s["Turntable Assets Path"]),
                   store |-> save_ui_settings(s, st)]

\* variant: an empty sequence path is accepted
validate_data_settings_unchecked_sequence(s, props, st) ==
    IF s["Turntable Map Path"] = <<>>
    THEN [ret |-> "False", exit |-> "map", props |-> props, store |-> st]
    ELSE LET props2 == Put(Put(props, "turntable_map_path", s["Turntable Map Path"]),
                           "sequence_path", s["Sequence Path"])
         IN  IF s["Turntable Assets Path"] = <<>>
             THEN [ret |-> "False", exit |-> "assets", props |-> props2, store |-> st]
             ELSE [ret |-> "True", exit |-> "ok",
                   props |-> Put(props2, "turntable_assets_path", s["Turntable Assets Path"]),
                   store |-> save_ui_settings(s, st)]

\* variant: the settings are saved before the data settings are checked
validate_data_settings_saving_first(s, props, st) ==
    IF s["Turntable Map Path"] = <<>>
    THEN [ret |-> "False", exit |-> "map", props |-> props, store |-> save_ui_settings(s, st)]
    ELSE LET props1 == Put(props, "turntable_map_path", s["Turntable Map Path"])
         IN  IF s["Sequence Path"] = <<>>
             THEN [ret |-> "False", exit |-> "sequence", props |-> props1,
                   store |-> save_ui_settings(s, st)]
             ELSE LET props2 == Put(props1, "sequence_path", s["Sequence Path"])
                  IN  IF s["Turntable Assets Path"] = <<>>
                      THEN [ret |-> "False", exit |-> "assets", props |-> props2,
                            store |-> save_ui_settings(s, st)]
                      ELSE [ret |-> "True", exit |-> "ok",
                            props |-> Put(props2, "turntable_assets_path",
                                          s["Turntable Assets Path"]),
                            store |-> save_ui_settings(s, st)]

\* validate, the three Unreal data settings and the final save
validate_data_settings(s, props, st) ==
    IF s["Turntable Map Path"] = <<>>
    THEN [ret |-> "False", exit |-> "map", props |-> props, store |-> st]
    ELSE LET props1 == Put(props, "turntable_map_path", s["Turntable Map Path"])
         IN  IF s["Sequence Path"] = <<>>
             THEN [ret |-> "False", exit |-> "sequence", props |-> props1, store |-> st]
             ELSE LET props2 == Put(props1, "sequence_path", s["Sequence Path"])
                  IN  IF s["Turntable Assets Path"] = <<>>
                      THEN [ret |-> "False", exit |-> "assets", props |-> props2, store |-> st]
                      ELSE [ret |-> "True", exit |-> "ok",
                            props |-> Put(props2, "turntable_assets_path",
                                          s["Turntable Assets Path"]),
                            store |-> save_ui_settings(s, st)]

Out(ret, exit, props, lprops, st) ==
    [ret |-> ret, exit |-> exit, props |-> props, lprops |-> lprops, store |-> st]

validate_outcome(s, props, lprops, st, software_versions, ws, rule) ==
    IF ~session_saved(session_path)
    THEN Out("False", "unsaved", props, lprops, st)
    ELSE
    LET path == ShotgunPath_normalize(session_path)
        props1 == Put(props, "path", path)
        work_template == Get(props1, "work_template")
        publish_template == Get(lprops, "publish_template")
        d == IF work_template # <<>> /\ publish_template # <<>>
             THEN derive_from_templates(work_template, publish_template, path, props1, lprops)
             ELSE derive_from_workspace(path, props1, lprops, ws, rule)
    IN  IF d.exit # "ok" THEN Out(d.ret, d.exit, d.props, d.lprops, st)
        ELSE
        LET lprops2 == Put(d.lprops, "publish_type", <<"Unreal Turntable Render">>)
            e == get_unreal_exec_property(s, d.props, software_versions)
        IN  IF e.raised THEN Out("raised", "exec", e.props, lprops2, st)
            ELSE
            LET p == get_unreal_project_property(s, e.props)
            IN  IF p.raised THEN Out("raised", "project", p.props, lprops2, st)
                ELSE
                LET v == validate_data_settings(s, p.props, st)
                IN  Out(v.ret, v.exit, v.props, lprops2, v.store)

\* the exits of validate that lie after the publish path derivation
AfterDerivation == {"exec", "project", "map", "sequence", "assets", "ok"}

UsesTemplates == Get(properties, "work_template") # <<>>
                 /\ Get(local_properties, "publish_template") # <<>>

\* the answers of the environment; an answer validate never asks for is not drawn
ScansConsulted == IF settings["Unreal Engine Path"] = <<>> THEN ScanResults ELSE {<<>>}
WorkspacesConsulted == IF UsesTemplates THEN {<<>>} ELSE {<<>>, <<"/", "ws">>}
MovieRulesConsulted == IF UsesTemplates THEN {<<>>} ELSE {<<>>, <<"movies">>}

validate ==
    /\ pc = "validate"
    /\ \E software_versions \in ScansConsulted,
          ws \in WorkspacesConsulted,
          rule \in MovieRulesConsulted :
          LET o == validate_outcome(settings, properties, local_properties, store,
                                    software_versions, ws, rule)
              scans == o.exit \in AfterDerivation /\ settings["Unreal Engine Path"] = <<>>
              asks == o.exit \in AfterDerivation \cup {"workspace"} /\ ~UsesTemplates
          IN  /\ properties' = o.props
              /\ local_properties' = o.lprops
              /\ store' = o.store
              /\ validateRet' = o.ret
              /\ validateExit' = o.exit
              /\ scanned' = IF scans THEN software_versions ELSE <<>>
              /\ workspace' = IF asks THEN ws ELSE <<>>
              /\ movie_rule' = IF asks THEN rule ELSE <<>>
              /\ pc' = IF o.ret = "True" THEN "publish" ELSE "aborted"
    /\ UNCHANGED <<platform, session_path, settings, context_change_allowed, acceptRet>>
    /\ UNCHANGED publishVars
    /\ UNCHANGED callVars

-----------------------------------------------------------------------------
(* accept *)

\* variant: an unresolved template does not reject the item
accept_accepted_always(template_name, publish_template) == TRUE

accept_accepted(template_name, publish_template) ==
    ~(template_name # <<>> /\ publish_template = <<>>)

\* variant: the flag is never cleared
accept_context_change_allowed_kept(template_name, allowed) == allowed

accept_context_change_allowed(template_name, allowed) ==
    IF template_name # <<>> THEN FALSE ELSE allowed

accept ==
    /\ pc = "accept"
    /\ LET template_name == settings["Publish Template"]
           publish_template == get_template_by_name(template_name)
           accepted == accept_accepted(template_name, publish_template)
       IN  /\ local_properties' =
                  IF template_name # <<>>
                  THEN Put(local_properties, "publish_template", publish_template)
                  ELSE local_properties
           /\ context_change_allowed' =
                  accept_context_change_allowed(template_name, context_change_allowed)
           /\ settings' = IF accepted THEN load_saved_ui_settings(settings, store) ELSE settings
           /\ acceptRet' = [accepted |-> accepted, checked |-> TRUE]
           /\ pc' = IF accepted THEN "validate" ELSE "rejected"
    /\ UNCHANGED <<platform, session_path, store, properties, validateRet, validateExit,
                   scanned, workspace, movie_rule>>
    /\ UNCHANGED publishVars
    /\ UNCHANGED callVars

-----------------------------------------------------------------------------
(* publish: helpers *)

\* the tokens the regular expression \W matches
NonWordTokens == {"/", "\\", ".", " ", "-", "\""}

\* re.search(exp, s) with exp = re.compile(r"\W")
re_search_non_word(s) == \E i \in 1..Len(s) : s[i] \in NonWordTokens

\* exp.sub("_", s)
re_sub_non_word(s) == [i \in 1..Len(s) |-> IF s[i] \in NonWordTokens THEN "_" ELSE s[i]]

\* os.path.split(p)[0]
os_path_dirname(p) ==
    LET idx == {i \in 1..Len(p) : p[i] \in path_seps}
        last == CHOOSE i \in idx : \A j \in idx : j <= i
    IN  IF idx = {} THEN <<>>
        ELSE IF last = 1 THEN <<p[1]>>
        ELSE SubSeq(p, 1, last - 1)

\* tempfile.mkdtemp: a fresh directory under the platform's temp root
TempRoot ==
    IF platform = "win32"
    THEN <<"C:", "\\", "Users", "\\", "me", "\\", "AppData", "\\", "Local", "\\", "Temp">>
    ELSE <<"/", "tmp">>

tempfile_mkdtemp(name) == TempRoot \o <<os_sep, name>>

\* Path.home(): Maya may point HOME at the Documents folder of the profile
DocumentsHome == <<"C:", "\\", "Users", "\\", "me", "\\", "Documents">>
ProfileHome == <<"C:", "\\", "Users", "\\", "me">>

\* str(n) for a clock field
str_int(n) == IF n < 10 THEN <<ToString(n)>> ELSE <<ToString(n \div 10), ToString(n % 10)>>

\* str(now.hour) + str(now.minute) + str(now.second)
timestamp_of(now) == str_int(now[1]) \o str_int(now[2]) \o str_int(now[3])

Times == {<<1, 23, 4>>, <<12, 3, 4>>}

\* base plugin get_publish_path: item.get_property("publish_path"), the local
\* property first
get_publish_path(props, lprops) ==
    IF "publish_path" \in DOMAIN lprops THEN lprops["publish_path"] ELSE props["publish_path"]

\* _get_local_path(published_file), local_path form
get_local_path(published_file) == published_file.path.local_path

\* the temp path rebuilt from the user profile: home_parent + '/AppData' + rest
appdata_rebuilt(home, mkdtemp_path) ==
    os_path_dirname(home) \o <<"/", "AppData">> \o split(mkdtemp_path, "AppData", -1)[2]

\* variant: the engine is pointed at the original project
temp_project_path_original(temp_dir, unreal_project_path) == unreal_project_path

\* the project file inside the copied project directory
temp_project_path_of(temp_dir, unreal_project_path) ==
    os_path_join(os_path_join(temp_dir, os_path_basename(os_path_dirname(unreal_project_path))),
                 os_path_basename(unreal_project_path))

quote_if_spaced(p) == IF " " \in Range(p) THEN <<"\"">> \o p \o <<"\"">> ELSE p

\* os.environ as the host process has it when publish starts
HostEnviron == [k \in {"PATH"} |-> <<"/", "bin">>]

\* run_env = copy.copy(os.environ); run_env.update(extra_env)
run_env_of(fbx_output_path, turntable_assets_path, turntable_map_path, sequence_path, publish_path) ==
    Put(Put(Put(Put(Put(HostEnviron,
        "UNREAL_SG_FBX_OUTPUT_PATH", fbx_output_path),
        "UNREAL_SG_ASSETS_PATH", turntable_assets_path),
        "UNREAL_SG_MAP_PATH", turntable_map_path),
        "UNREAL_SG_SEQUENCE_PATH", sequence_path),
        "UNREAL_SG_MOVIE_OUTPUT_PATH", publish_path)

Call(op, project, path, launched, env) ==
    [op |-> op, project |-> project, path |-> path, launched |-> launched, env |-> env]

\* variant: the wrong renderer is picked
use_movie_render_queue_inverted(manifest_is_file) == ~manifest_is_file

\* os.path.isfile(manifest_full_path) decides the renderer
use_movie_render_queue(manifest_is_file) == manifest_is_file

\* variant: the extension is left alone
mrq_publish_path_unchanged(publish_path) == publish_path

\* re.sub(r"\.avi$", ".mov", publish_path)
mrq_publish_path(publish_path) ==
    IF Len(publish_path) >= 2 /\ SubSeq(publish_path, Len(publish_path) - 1, Len(publish_path)) = <<".", "avi">>
    THEN SubSeq(publish_path, 1, Len(publish_path) - 2) \o <<".", "mov">>
    ELSE publish_path

\* variant: the output file is not looked for
movie_generated_unchecked(d, publish_path) == TRUE

\* os.path.isfile(publish_path) after the render
movie_generated(d, publish_path) == canon(publish_path) \in d

\* variant: the parent keeps the substituted publish data
restore_parent_skipped(parent, parent_had_sg_publish_data, parent_sg_publish_data) == parent

\* the finally clause around the base publish
restore_parent(parent, parent_had_sg_publish_data, parent_sg_publish_data) ==
    IF parent_had_sg_publish_data
    THEN Put(parent, "sg_publish_data", parent_sg_publish_data)
    ELSE [k \in (DOMAIN parent) \ {"sg_publish_data"} |-> parent[k]]

\* variant: the Version is not recorded
shotgun_create_version_dropped(eff, sg_path_to_movie) == eff

\* self.parent.shotgun.create("Version", version_data)
shotgun_create_version(eff, sg_path_to_movie) ==
    eff \cup {[type |-> "Version", path |-> sg_path_to_movie]}

\* what the environment answers during one publish call
ScenarioFields == {"home_documents", "export_ok", "script_space", "manifest", "pre_exists",
                   "removable", "rendered", "base_ok", "create_ok", "upload_ok"}

ScenarioCanonical(sc) ==
    LET reaches_render == sc.export_ok /\ ~sc.script_space
        removed == ~sc.manifest /\ sc.pre_exists /\ sc.removable
        kept == sc.pre_exists /\ ~removed
        launched == sc.manifest \/ ~sc.pre_exists \/ sc.removable
        movie == sc.rendered \/ kept
    IN  /\ ~reaches_render => (~sc.manifest /\ ~sc.pre_exists)
        /\ sc.removable => (reaches_render /\ ~sc.manifest /\ sc.pre_exists)
        /\ sc.script_space => sc.export_ok
        /\ sc.rendered => (reaches_render /\ launched)
        /\ sc.base_ok => (reaches_render /\ movie)
        /\ sc.create_ok => sc.base_ok
        /\ sc.upload_ok => sc.create_ok

Scenarios == {sc \in [ScenarioFields -> BOOLEAN] : ScenarioCanonical(sc)}

-----------------------------------------------------------------------------
(* publish *)

\* work_name + "_" + timestamp + "_turntable.fbx"
temp_fbx_name(work_name, now) ==
    work_name \o <<"_">> \o timestamp_of(now) \o <<"_turntable", ".", "fbx">>

\* line 1014: the pattern is searched in the whole path without its extension
fbx_needs_copy(fbx_published_path) ==
    re_search_non_word(os_path_splitext_root(fbx_published_path))

FbxOut(ret, exit, props, lprops, d, fbx) ==
    [ret |-> ret, exit |-> exit, props |-> props, lprops |-> lprops, d |-> d, fbx |-> fbx]

\* publish, step 1: the temp folder and the FBX handed to the engine
publish_fbx(props, lprops, parent, d, sc, now) ==
    LET temp2_folder == tempfile_mkdtemp("tmp1temp_unreal_shotgun")
        d1 == d \cup {canon(temp2_folder)}
    IN  IF Len(split(temp2_folder, "AppData", -1)) # 2
        THEN FbxOut("raised", "appdata", props, lprops, d1, <<>>)
        ELSE
        LET home == IF sc.home_documents THEN DocumentsHome ELSE ProfileHome
            temp_folder == appdata_rebuilt(home, temp2_folder)
            lprops1 == Put(lprops, "temp_folder", temp_folder)
            work_name == re_sub_non_word(os_path_splitext_root(
                             os_path_basename(os_path_normpath(props["path"]))))
            fbx_name == temp_fbx_name(work_name, now)
            fbx_in_temp == os_path_join(temp_folder, fbx_name)
            published_fbx == Get(parent, "sg_fbx_publish_data")
            folder_exists == canon(temp_folder) \in d1
        IN  IF published_fbx # <<>>
            THEN IF fbx_needs_copy(get_local_path(published_fbx))
                 THEN IF folder_exists
                      THEN FbxOut("none", "ok", props, lprops1,
                                  d1 \cup {canon(fbx_in_temp)}, fbx_in_temp)
                      ELSE FbxOut("raised", "fbx_copy", props, lprops1, d1, <<>>)
                 ELSE FbxOut("none", "ok", props, lprops1, d1, get_local_path(published_fbx))
            ELSE IF sc.export_ok /\ folder_exists
                 THEN FbxOut("none", "ok", Put(props, "temp_fbx_path", fbx_in_temp), lprops1,
                             d1 \cup {canon(fbx_in_temp)}, fbx_in_temp)
                 ELSE FbxOut("False", "fbx_export", props, lprops1, d1, <<>>)

RenderOut(ret, exit, lprops, d, origin, cl, publish_path) ==
    [ret |-> ret, exit |-> exit, lprops |-> lprops, d |-> d, origin |-> origin, cl |-> cl,
     publish_path |-> publish_path]

\* _unreal_render_movie_with_sequencer: the disk, the origin of the movie file
\* and whether the engine was launched
render_with_sequencer(d, output_path, sc) ==
    LET out == canon(output_path)
        d_pre == IF sc.pre_exists THEN d \cup {out} ELSE d
    IN  IF out \in d_pre /\ ~sc.removable
        THEN [d |-> d_pre, origin |-> "stale", launched |-> FALSE]
        ELSE [d |-> IF sc.rendered THEN d \cup {out} ELSE d \ {out},
              origin |-> IF sc.rendered THEN "rendered" ELSE "none",
              launched |-> TRUE]

\* _unreal_render_movie_with_movie_render_queue
render_with_movie_render_queue(d, output_path, sc) ==
    LET out == canon(output_path)
        d_pre == IF sc.pre_exists THEN d \cup {out} ELSE d
    IN  [d |-> IF sc.rendered THEN d_pre \cup {out} ELSE d_pre,
         origin |-> IF sc.rendered THEN "rendered"
                    ELSE IF out \in d_pre THEN "stale" ELSE "none",
         launched |-> TRUE]

\* os.path.join(temp_project_dir, "Saved", "MovieRenderPipeline/QueueManifest.utxt")
manifest_full_path_of(temp_project_dir) ==
    os_path_join(os_path_join(temp_project_dir, <<"Saved">>),
                 <<"MovieRenderPipeline", "/", "QueueManifest", ".", "utxt">>)

\* publish, steps 2 to 4: the project copy, the setup script and the render
publish_render(props, lprops, d, sc, fbx_output_path, publish_path) ==
    LET temp_dir2 == tempfile_mkdtemp("tmp2")
        d2 == d \cup {canon(temp_dir2)}
    IN  IF Len(split(temp_dir2, "AppData", -1)) # 2
        THEN RenderOut("raised", "appdata", lprops, d2, "none", <<>>, publish_path)
        ELSE
        LET home == IF sc.home_documents THEN DocumentsHome ELSE ProfileHome
            temp_dir == appdata_rebuilt(home, temp_dir2)
            copied_project_path == os_path_join(
                os_path_join(temp_dir, os_path_basename(os_path_dirname(props["unreal_project_path"]))),
                os_path_basename(props["unreal_project_path"]))
            d3 == d2 \cup {canon(os_path_dirname(copied_project_path)), canon(copied_project_path)}
        IN  IF sc.script_space
            THEN RenderOut("raised", "script_copy", lprops, d3, "none", <<>>, publish_path)
            ELSE
            LET temp_project_path ==
                    quote_if_spaced(temp_project_path_of(temp_dir, props["unreal_project_path"]))
                run_env == run_env_of(fbx_output_path, props["turntable_assets_path"],
                                      props["turntable_map_path"], props["sequence_path"],
                                      publish_path)
                setup == Call("execute_script", temp_project_path, <<>>, TRUE, run_env)
                manifest_full_path == manifest_full_path_of(os_path_dirname(copied_project_path))
                d4 == IF sc.manifest THEN d3 \cup {canon(manifest_full_path)} ELSE d3
            IN  IF use_movie_render_queue(canon(manifest_full_path) \in d4)
                THEN LET publish_path2 == mrq_publish_path(publish_path)
                         r == render_with_movie_render_queue(d4, publish_path2, sc)
                     IN  RenderOut("none", "ok", Put(lprops, "publish_path", publish_path2),
                                   r.d, r.origin,
                                   <<setup, Call("render_movie_render_queue", temp_project_path,
                                                 publish_path2, r.launched, EmptyDict)>>,
                                   publish_path2)
                ELSE LET r == render_with_sequencer(d4, publish_path, sc)
                     IN  RenderOut("none", "ok", lprops, r.d, r.origin,
                                   <<setup, Call("render_sequencer", temp_project_path,
                                                 publish_path, r.launched, EmptyDict)>>,
                                   publish_path)

PubOut(ret, exit, props, lprops, parent, d, origin, cl, eff) ==
    [ret |-> ret, exit |-> exit, props |-> props, lprops |-> lprops, parent |-> parent,
     d |-> d, origin |-> origin, cl |-> cl, eff |-> eff]

\* base plugin publish: registers the file at the item's publish path, with the
\* parent's publish as dependency
register_publish(props, lprops, parent) ==
    [path |-> [local_path |-> get_publish_path(props, lprops)],
     dependency |-> Get(parent, "sg_publish_data")]

\* publish, steps 5 and 6: the base publish, the Version and the upload
publish_register(props, lprops, parent, d, origin, cl, sc, publish_path) ==
    LET published_fbx == Get(parent, "sg_fbx_publish_data")
        parent_had_sg_publish_data == "sg_publish_data" \in DOMAIN parent
        parent_sg_publish_data == Get(parent, "sg_publish_data")
        parent1 == IF published_fbx # <<>>
                   THEN Put(parent, "sg_publish_data", published_fbx) ELSE parent
        parent2 == IF published_fbx # <<>>
                   THEN restore_parent(parent1, parent_had_sg_publish_data,
                                       parent_sg_publish_data)
                   ELSE parent1
        record == register_publish(props, lprops, parent1)
        base == Call("base_publish", <<>>, record.path.local_path, TRUE, EmptyDict)
        cl1 == Append(cl, base)
    IN  IF ~sc.base_ok
        THEN PubOut("raised", "base_publish", props, lprops, parent2, d, origin, cl1, {})
        ELSE
        LET props1 == Put(props, "sg_publish_data", record)
            eff1 == {[type |-> "PublishedFile", path |-> record.path.local_path]}
            lprops1 == Put(lprops, "sg_publish_data", props1["sg_publish_data"])
            cl2 == Append(cl1, Call("create_version", <<>>, publish_path, TRUE, EmptyDict))
        IN  IF ~sc.create_ok
            THEN PubOut("raised", "create_version", props1, lprops1, parent2, d, origin, cl2, eff1)
            ELSE
            LET eff2 == shotgun_create_version(eff1, publish_path)
                lprops2 == Put(lprops1, "sg_version_data", [sg_path_to_movie |-> publish_path])
                upload_path == get_local_path(props1["sg_publish_data"])
                cl3 == Append(cl2, Call("upload", <<>>, upload_path, TRUE, EmptyDict))
            IN  IF ~sc.upload_ok
                THEN PubOut("raised", "upload", props1, lprops2, parent2, d, origin, cl3, eff2)
                ELSE PubOut("returned", "ok", props1, lprops2, parent2, d, origin, cl3,
                            eff2 \cup {[type |-> "Upload", path |-> upload_path]})

\* publish once the movie was rendered: the check of line 1169, then steps 5 and 6
publish_after_render(f, r, parent, sc) ==
    IF r.exit # "ok"
    THEN PubOut(r.ret, r.exit, f.props, r.lprops, parent, r.d, r.origin, r.cl, {})
    ELSE IF ~movie_generated(r.d, r.publish_path)
    THEN PubOut("raised", "movie_missing", f.props, r.lprops, parent, r.d, r.origin, r.cl, {})
    ELSE publish_register(f.props, r.lprops, parent, r.d, r.origin, r.cl, sc, r.publish_path)

\* publish once the FBX is at hand: steps 2 to 6
publish_after_fbx(f, parent, sc, publish_path) ==
    IF f.exit # "ok"
    THEN PubOut(f.ret, f.exit, f.props, f.lprops, parent, f.d, "none", <<>>, {})
    ELSE publish_after_render(
             f, publish_render(f.props, f.lprops, f.d, sc, f.fbx, publish_path), parent, sc)

publish_outcome(props, lprops, parent, d, sc, now) ==
    publish_after_fbx(publish_fbx(props, lprops, parent, d, sc, now), parent, sc,
                      os_path_normpath(get_publish_path(props, lprops)))

\* run_env = copy.copy(os.environ) is a second os._Environ object over the same
\* mapping: what run_env.update writes is written to os.environ as well. The
\* update of line 1112 is reached exactly when the setup script is then run.
environ_after_publish(environ, cl) ==
    IF cl # <<>> /\ cl[1].op = "execute_script" THEN cl[1].env ELSE environ

\* what the publish of the parent item's other tasks may leave on the parent
SpacedFbx == [path |-> [local_path |-> <<"/", "pub", "/", "my", " ", "model", ".", "fbx">>]]
PlainFbx == [path |-> [local_path |-> <<"/", "pub", "/", "model", ".", "fbx">>]]
ParentPublish == [path |-> [local_path |-> <<"/", "pub", "/", "scene", ".", "ma">>]]

UpstreamResults ==
    { [k \in {"sg_fbx_publish_data"} |-> SpacedFbx],
      [k \in {"sg_fbx_publish_data", "sg_publish_data"} |->
          IF k = "sg_fbx_publish_data" THEN PlainFbx ELSE ParentPublish] }

\* another task of the publish tree publishes the FBX before this plugin runs
upstream_publish ==
    /\ pc = "publish"
    /\ parent_properties = EmptyDict
    /\ parent_properties' \in UpstreamResults
    /\ UNCHANGED <<pc, properties, local_properties, disk, movie_origin, calls, sg,
                   publishRet, publishExit, log_level, finalizeRet, finalizeExit, os_environ>>
    /\ UNCHANGED validateVars
    /\ UNCHANGED callVars

\* the answers publish can get: the FBX export is only tried without a published FBX
ScenariosConsulted ==
    IF Get(parent_properties, "sg_fbx_publish_data") # <<>>
    THEN {sc \in Scenarios : sc.export_ok}
    ELSE Scenarios

publish ==
    /\ pc = "publish"
    /\ \E sc \in ScenariosConsulted, now \in Times :
          \E o \in {publish_outcome(properties, local_properties, parent_properties, disk,
                                    sc, now)} :
              /\ properties' = o.props
              /\ local_properties' = o.lprops
              /\ parent_properties' = o.parent
              /\ disk' = o.d
              /\ movie_origin' = o.origin
              /\ calls' = o.cl
              /\ sg' = o.eff
              /\ publishRet' = o.ret
              /\ publishExit' = o.exit
              /\ os_environ' = environ_after_publish(os_environ, o.cl)
              /\ pc' = IF o.ret = "raised" THEN "aborted" ELSE "finalize"
    /\ UNCHANGED <<log_level, finalizeRet, finalizeExit>>
    /\ UNCHANGED validateVars
    /\ UNCHANGED callVars

other_publish_calls(cl) == {i \in 1..Len(cl) : cl[i].op = "other_publish"}

\* what another plugin registers for the same item
OtherPublish == [path |-> [local_path |-> <<"/", "pub", "/", "other", ".", "abc">>]]

\* between the publish pass and the finalize pass another plugin attached to
\* the same item publishes, and leaves its own record in the shared property
other_plugin_publish ==
    /\ pc = "finalize"
    /\ other_publish_calls(calls) = {}
    /\ properties' = Put(properties, "sg_publish_data", OtherPublish)
    /\ calls' = Append(calls, Call("other_publish", <<>>, get_local_path(OtherPublish), TRUE,
                                   EmptyDict))
    /\ UNCHANGED <<pc, local_properties, parent_properties, disk, movie_origin, sg, publishRet,
                   publishExit, log_level, finalizeRet, finalizeExit, os_environ>>
    /\ UNCHANGED validateVars
    /\ UNCHANGED callVars

-----------------------------------------------------------------------------
(* finalize *)

logging_DEBUG == 10

LogLevels == {5, logging_DEBUG, 20}

IsPrefix(a, b) == Len(a) <= Len(b) /\ SubSeq(b, 1, Len(a)) = a

\* shutil.rmtree(folder): the folder and everything below it
shutil_rmtree(d, folder) == {q \in d : ~IsPrefix(canon(folder), q)}

\* variant: DEBUG itself also cleans up
finalize_cleans_at_debug(level) == level >= logging_DEBUG

\* variant: the temp folder is always kept
finalize_cleans_never(level) == FALSE

\* self.logger.getEffectiveLevel() > logging.DEBUG
finalize_cleans(level) == level > logging_DEBUG

FinOut(ret, exit, props, d, cl) ==
    [ret |-> ret, exit |-> exit, props |-> props, d |-> d, cl |-> cl]

\* variant: the local publish record is not copied to the shared property
finalize_outcome_without_copy(props, lprops, d, cl, level) ==
    IF "sg_publish_data" \notin DOMAIN lprops
    THEN FinOut("raised", "sg_publish_data", props, d, cl)
    ELSE
    LET props1 == props
        cl1 == Append(cl, Call("base_finalize", <<>>, get_local_path(props1["sg_publish_data"]),
                               TRUE, EmptyDict))
        temp_folder == Get(lprops, "temp_folder")
    IN  IF finalize_cleans(level) /\ temp_folder # <<>>
        THEN IF canon(temp_folder) \in d
             THEN FinOut("returned", "ok", props1, shutil_rmtree(d, temp_folder), cl1)
             ELSE FinOut("raised", "rmtree", props1, d, cl1)
        ELSE FinOut("returned", "ok", props1, d, cl1)

finalize_outcome(props, lprops, d, cl, level) ==
    IF "sg_publish_data" \notin DOMAIN lprops
    THEN FinOut("raised", "sg_publish_data", props, d, cl)
    ELSE
    LET props1 == Put(props, "sg_publish_data", lprops["sg_publish_data"])
        cl1 == Append(cl, Call("base_finalize", <<>>, get_local_path(props1["sg_publish_data"]),
                               TRUE, EmptyDict))
        temp_folder == Get(lprops, "temp_folder")
    IN  IF finalize_cleans(level) /\ temp_folder # <<>>
        THEN IF canon(temp_folder) \in d
             THEN FinOut("returned", "ok", props1, shutil_rmtree(d, temp_folder), cl1)
             ELSE FinOut("raised", "rmtree", props1, d, cl1)
        ELSE FinOut("returned", "ok", props1, d, cl1)

finalize ==
    /\ pc = "finalize"
    /\ \E level \in LogLevels :
          LET o == finalize_outcome(properties, local_properties, disk, calls, level)
          IN  /\ properties' = o.props
              /\ disk' = o.d
              /\ calls' = o.cl
              /\ finalizeRet' = o.ret
              /\ finalizeExit' = o.exit
              /\ log_level' = level
              /\ pc' = IF o.ret = "raised" THEN "aborted" ELSE "done"
    /\ UNCHANGED <<local_properties, parent_properties, movie_origin, sg, publishRet,
                   publishExit, os_environ>>
    /\ UNCHANGED validateVars
    /\ UNCHANGED callVars

-----------------------------------------------------------------------------
(* Initial states: a freshly collected item, the configured settings, the   *)
(* saved settings of an earlier run and the Maya session.                   *)

SessionPaths ==
    { <<>>,
      <<"/", "proj", "/", "foo", "_v", "3", ".", "ma">>,
      <<"/", "tmp", "/", "foo", ".", "ma">> }

DefaultProjectTemplate ==
    <<"{config}", "/", "unreal", "/", "{unreal_engine_version}", "/", "turntable.uproject">>
DefaultMapPath == <<"/Game/turntable/level/turntable.umap">>
DefaultSequencePath == <<"/Game/turntable/sequence/turntable_sequence.turntable_sequence">>
DefaultAssetsPath == <<"/Game/maya_turntable_assets">>

ProjectSettings ==
    { <<UserProject, DefaultProjectTemplate>>,
      <<UserProjectDir, DefaultProjectTemplate>>,
      <<(<<>>), DefaultProjectTemplate>>,
      <<(<<>>), (<<>>)>> }

DataSettings ==
    { <<DefaultMapPath, DefaultSequencePath, DefaultAssetsPath>>,
      <<(<<>>), DefaultSequencePath, DefaultAssetsPath>>,
      <<DefaultMapPath, (<<>>), DefaultAssetsPath>>,
      <<DefaultMapPath, DefaultSequencePath, (<<>>)>> }

SharedStore ==
    [k \in {"publish2.unreal_engine_version", "publish2.unreal_engine_path"} |->
        IF k = "publish2.unreal_engine_version" THEN <<"5", ".", "0", ".", "2">> ELSE UE50Exe]

FullStore ==
    [k \in {SavedKey(name) : name \in SavedNames} |->
        CASE k = "publish2.unreal_engine_version" -> <<"4", ".", "26">>
          [] k = "publish2.unreal_engine_path" -> UE426Exe
          [] k = "publish2.turntable.unreal_project_path" -> UserProject
          [] k = "publish2.turntable.map_path" -> <<"/Game/saved/map.umap">>
          [] k = "publish2.turntable.sequence_path" -> <<"/Game/saved/sequence">>
          [] OTHER -> <<"/Game/saved/assets">>]

Stores == {EmptyDict, SharedStore, FullStore}

InitSettings(publish_template, version, exec, project, data) ==
    [name \in {"Publish Template", "Work Template", "Unreal Engine Version",
               "Unreal Engine Path", "Unreal Project Path Template",
               "Unreal Project Path", "Turntable Map Path", "Sequence Path",
               "Turntable Assets Path"} |->
        CASE name = "Publish Template" -> publish_template
          [] name = "Work Template" -> <<>>
          [] name = "Unreal Engine Version" -> version
          [] name = "Unreal Engine Path" -> exec
          [] name = "Unreal Project Path Template" -> project[2]
          [] name = "Unreal Project Path" -> project[1]
          [] name = "Turntable Map Path" -> data[1]
          [] name = "Sequence Path" -> data[2]
          [] OTHER -> data[3]]

Init ==
    /\ pc = "accept"
    /\ platform \in {"win32", "linux"}
    /\ session_path \in SessionPaths
    /\ \E publish_template \in (DOMAIN PublishTemplates) \cup {<<>>, <<"unknown_template">>},
          version \in {<<"4", ".", "26">>, <<"5", ".", "0", ".", "3">>},
          exec \in {<<>>, UE50Exe, GoneExe},
          project \in ProjectSettings,
          data \in DataSettings :
          settings = InitSettings(publish_template, version, exec, project, data)
    /\ store \in Stores
    /\ properties \in {EmptyDict,
                       [k \in {"work_template"} |-> WorkTemplateVersioned],
                       [k \in {"work_template"} |-> WorkTemplateUnversioned]}
    /\ local_properties = EmptyDict
    /\ context_change_allowed = TRUE
    /\ acceptRet = [accepted |-> FALSE, checked |-> FALSE]
    /\ validateRet = "none"
    /\ validateExit = "none"
    /\ scanned = <<>>
    /\ workspace = <<>>
    /\ movie_rule = <<>>
    /\ parent_properties = EmptyDict
    /\ disk = {}
    /\ movie_origin = "none"
    /\ calls = <<>>
    /\ sg = {}
    /\ publishRet = "none"
    /\ publishExit = "none"
    /\ log_level = 0
    /\ finalizeRet = "none"
    /\ finalizeExit = "none"
    /\ os_environ = HostEnviron
    /\ call_fn = "none"
    /\ call_arg = <<>>
    /\ call_result = <<>>

\* acceptance and validation, over every configuration
Next == accept \/ validate

Spec == Init /\ [][Next]_vars

\* the whole lifecycle of one item, over the configurations publish tells apart:
\* the platform, where the publish path comes from, and its extension
PublishInit ==
    /\ Init
    /\ session_path \in {<<"/", "proj", "/", "foo", "_v", "3", ".", "ma">>,
                         <<"/", "tmp", "/", "foo", ".", "ma">>}
    /\ settings["Publish Template"] \in {<<"turntable_publish">>, <<"named_publish">>, <<>>}
    /\ settings["Unreal Engine Version"] = <<"5", ".", "0", ".", "3">>
    /\ settings["Unreal Engine Path"] = UE50Exe
    /\ settings["Unreal Project Path"] \in {UserProject, <<>>}
    /\ settings["Unreal Project Path Template"] = DefaultProjectTemplate
    /\ settings["Turntable Map Path"] = DefaultMapPath
    /\ settings["Sequence Path"] = DefaultSequencePath
    /\ settings["Turntable Assets Path"] = DefaultAssetsPath
    /\ store = EmptyDict
    /\ properties \in {EmptyDict, [k \in {"work_template"} |-> WorkTemplateVersioned]}

PublishNext ==
    accept \/ validate \/ upstream_publish \/ publish \/ other_plugin_publish \/ finalize

PublishSpec == PublishInit /\ [][PublishNext]_vars

-----------------------------------------------------------------------------
(* The helpers called on their own, as a test of the module would call them *)

\* what a helper call leaves alone
itemVars == <<pc, properties, local_properties>>

VersionTokens == {"5", "0", "2", "."}
VersionStrings == UNION {[1..n -> VersionTokens] : n \in 0..MaxVersionLen}

call_short_version ==
    /\ call_fn = "none"
    /\ \E version \in VersionStrings :
          /\ call_arg' = version
          /\ call_result' = _short_version(version)
    /\ call_fn' = "_short_version"
    /\ UNCHANGED <<itemVars, validateVars, publishVars>>

\* project path templates and versions as a configuration may hold them
ProjectTemplates ==
    { <<>>,
      DefaultProjectTemplate,
      <<"{self}", "/", "{engine}", "/", "{unreal_engine_version}", "/", "{config}">>,
      <<"{engine}", "/", "{engine}", "/", "tt.uproject">>,
      <<"/", "projects", "/", "tt.uproject">> }

ConfiguredVersions ==
    { <<>>, <<"5">>, <<"5", ".", "0", ".", "2">>, <<"4", ".", "26">>, <<"{self}">>,
      <<"{config}">> }

call_evaluate_unreal_project_path ==
    /\ call_fn = "none"
    /\ \E unreal_project_path_template \in ProjectTemplates,
          unreal_engine_version \in ConfiguredVersions :
          /\ call_arg' = <<unreal_project_path_template, unreal_engine_version>>
          /\ call_result' = evaluate_unreal_project_path(unreal_project_path_template,
                                                         unreal_engine_version)
    /\ call_fn' = "evaluate_unreal_project_path"
    /\ UNCHANGED <<itemVars, validateVars, publishVars>>

\* what a scan may return: two release builds and two dev builds, in any order
ScannedVersions ==
    SoftwareVersions \cup
    { [display_name |-> <<"Unreal Engine ", "5.1", " ", "(Dev Build)">>,
       version |-> <<"5", ".", "1", ".", "0">>, path |-> GoneExe] }

ScanLists == UNION {[1..n -> ScannedVersions] : n \in 0..MaxScanned}

call_get_unreal_versions ==
    /\ call_fn = "none"
    /\ \E software_versions \in ScanLists :
          /\ call_arg' = software_versions
          /\ call_result' = get_unreal_versions(software_versions)
    /\ call_fn' = "get_unreal_versions"
    /\ UNCHANGED <<itemVars, validateVars, publishVars>>

\* the temp FBX names of two publishes of the scene 'foo'
call_temp_fbx_name ==
    /\ call_fn = "none"
    /\ \E now1 \in Times, now2 \in Times :
          /\ call_arg' = <<now1, now2>>
          /\ call_result' = <<temp_fbx_name(<<"foo">>, now1), temp_fbx_name(<<"foo">>, now2)>>
    /\ call_fn' = "temp_fbx_name"
    /\ UNCHANGED <<itemVars, validateVars, publishVars>>

\* one collected item, not yet accepted
FunctionInit ==
    /\ PublishInit
    /\ session_path = <<"/", "tmp", "/", "foo", ".", "ma">>
    /\ settings["Publish Template"] = <<>>
    /\ settings["Unreal Project Path"] = <<>>
    /\ properties = EmptyDict

FunctionNext ==
    \/ call_short_version
    \/ call_evaluate_unreal_project_path
    \/ call_get_unreal_versions
    \/ call_temp_fbx_name

FunctionSpec == FunctionInit /\ [][FunctionNext]_vars

TypeOK ==
    /\ pc \in {"accept", "validate", "publish", "finalize", "done", "rejected", "aborted"}
    /\ publishRet \in {"none", "returned", "False", "raised"}
    /\ finalizeRet \in {"none", "returned", "raised"}
    /\ validateRet \in {"none", "True", "False", "raised"}

-----------------------------------------------------------------------------
(* Properties *)

ValidateCalled == validateRet # "none"
AcceptCalled == pc # "accept"

PublishReads == {"path", "unreal_exec_path", "unreal_project_path",
                 "turntable_map_path", "sequence_path", "turntable_assets_path"}

\* C1: whenever validate returned True, every item property publish reads
\* (and the local property publish_path) is present when publish starts.
C1_PublishInputsPresent ==
    (pc = "publish" \/ validateRet = "True") =>
        /\ PublishReads \subseteq DOMAIN properties
        /\ "publish_path" \in DOMAIN local_properties

C1_Witness == pc = "publish" /\ validateRet = "True" /\ "publish_version" \in DOMAIN properties

\* C2 as stated: validate raises an error when the session has never been saved.
C2_Original == (ValidateCalled /\ session_path = <<>>) => validateRet = "raised"

\* C2, amended: when the session has never been saved validate returns False
\* without raising, before it stores anything on the item.
C2_UnsavedReturnsFalse ==
    (ValidateCalled /\ session_path = <<>>) =>
        /\ validateRet = "False"
        /\ validateExit = "unsaved"
        /\ "path" \notin DOMAIN properties

C2_Witness == ValidateCalled /\ session_path = <<>> /\ validateRet = "False"

DataExits == {"map", "sequence", "assets", "ok"}

SomeDataSettingEmpty ==
    \E name \in {"Turntable Map Path", "Sequence Path", "Turntable Assets Path"} :
        settings[name] = <<>>

\* C3: with a saved session, a derived publish path and a resolved executable
\* and project, validate returns False (no exception) when one of the three
\* data settings is empty and True when none is.
C3_DataSettings ==
    (ValidateCalled
        /\ validateExit \notin {"unsaved", "get_fields", "missing_keys", "workspace",
                                "exec", "project"}) =>
        validateRet = IF SomeDataSettingEmpty THEN "False" ELSE "True"

C3_Witness == validateRet = "False" /\ settings["Sequence Path"] = <<>>
              /\ "unreal_project_path" \in DOMAIN properties

\* what the work template extracts from the normalized session path, plus
\* the injected extension field
ExpectedWorkFields ==
    Put(template_get_fields(properties["work_template"], ShotgunPath_normalize(session_path)),
        "ue_mov_ext", IF platform = "win32" THEN "avi" ELSE "mov")

TemplateDerivationRan ==
    /\ ValidateCalled
    /\ session_path # <<>>
    /\ UsesTemplates
    /\ template_matches(properties["work_template"], ShotgunPath_normalize(session_path))

FooV3Fields ==
    /\ ExpectedWorkFields["name"] = "foo"
    /\ "version" \in DOMAIN ExpectedWorkFields
    /\ ExpectedWorkFields["version"] = "3"

C5_ExtensionAndMissingKeys ==
    TemplateDerivationRan =>
        /\ template_missing_keys(local_properties["publish_template"], ExpectedWorkFields) # {} =>
              /\ validateRet = "False"
              /\ "publish_path" \notin DOMAIN local_properties
        /\ "publish_path" \in DOMAIN local_properties =>
              /\ template_missing_keys(local_properties["publish_template"],
                                       ExpectedWorkFields) = {}
              /\ "ue_mov_ext" \in TemplateKeys(local_properties["publish_template"]) =>
                    LET publish_path == local_properties["publish_path"]
                    IN  publish_path[Len(publish_path)] =
                            IF platform = "win32" THEN "avi" ELSE "mov"

C5_Witness ==
    /\ TemplateDerivationRan
    /\ validateExit = "missing_keys"
    /\ "version" \notin DOMAIN ExpectedWorkFields

C5_WitnessAvi ==
    /\ TemplateDerivationRan
    /\ platform = "win32"
    /\ "publish_path" \in DOMAIN local_properties
    /\ local_properties["publish_path"][Len(local_properties["publish_path"])] = "avi"

\* C6: accept rejects exactly when a Publish Template name is configured and
\* does not resolve; the result always has checked=True.
C6_AcceptResult ==
    AcceptCalled =>
        /\ acceptRet.checked
        /\ ~acceptRet.accepted <=>
              (settings["Publish Template"] # <<>>
               /\ get_template_by_name(settings["Publish Template"]) = <<>>)

C6_Witness == pc = "rejected" /\ ~acceptRet.accepted /\ acceptRet.checked

\* C7 as stated: whenever accept returns accepted=True the item's
\* context_change_allowed flag is False afterwards.
C7_Original == (AcceptCalled /\ acceptRet.accepted) => ~context_change_allowed

\* C7, amended: whenever accept returns accepted=True with a Publish Template
\* configured, context_change_allowed is False afterwards; with no Publish
\* Template configured accept leaves the flag as it was.
C7_ContextChangeDisabled ==
    /\ (AcceptCalled /\ acceptRet.accepted /\ settings["Publish Template"] # <<>>) =>
          ~context_change_allowed
    /\ (AcceptCalled /\ settings["Publish Template"] = <<>>) => context_change_allowed

C7_Witness == AcceptCalled /\ acceptRet.accepted /\ settings["Publish Template"] # <<>>
              /\ ~context_change_allowed

AcceptStep == pc = "accept" /\ pc' # "accept"

\* C8: on acceptance each of the six saved settings takes the stored value if
\* the store holds one and keeps its value otherwise; on rejection no setting
\* changes.
C8_LoadOnAcceptance ==
    [][AcceptStep =>
        IF acceptRet'.accepted
        THEN \A name \in DOMAIN settings :
                settings'[name] =
                    IF name \in SavedNames /\ SavedKey(name) \in DOMAIN store
                    THEN store[SavedKey(name)]
                    ELSE settings[name]
        ELSE settings' = settings]_vars

C8_Witness ==
    /\ pc = "validate"
    /\ store = SharedStore
    /\ settings["Unreal Engine Path"] = UE50Exe
    /\ settings["Sequence Path"] = <<>>

ValidateStep == pc = "validate" /\ pc' # "validate"

\* C9: validate writes the six saved settings to the store if and only if it
\* returns True; a validate that returns False or raises leaves the store
\* unchanged.
C9_SaveOnSuccess ==
    [][ValidateStep =>
        IF validateRet' = "True"
        THEN /\ \A name \in SavedNames : SavedKey(name) \in DOMAIN store'
             /\ \A k \in DOMAIN store' :
                    store'[k] = IF \E name \in SavedNames : SavedKey(name) = k
                                THEN settings[CHOOSE name \in SavedNames : SavedKey(name) = k]
                                ELSE store[k]
        ELSE store' = store]_vars

C9_Witness ==
    /\ validateRet = "True"
    /\ "publish2.turntable.map_path" \in DOMAIN store
    /\ store["publish2.turntable.map_path"] = DefaultMapPath
    /\ store["publish2.unreal_engine_path"] = <<>>

\* C10: get_unreal_exec_property either raises and sets neither
\* unreal_exec_path nor unreal_engine_version, or sets unreal_exec_path to a
\* non-empty path that exists; it raises when no path is configured and no
\* version is detected, and when the configured or selected path does not exist.
C10_ExecProperty ==
    (ValidateCalled /\ validateExit \in AfterDerivation) =>
        /\ validateExit = "exec" =>
              /\ validateRet = "raised"
              /\ "unreal_exec_path" \notin DOMAIN properties
              /\ "unreal_engine_version" \notin DOMAIN properties
        /\ validateExit # "exec" =>
              /\ "unreal_exec_path" \in DOMAIN properties
              /\ "unreal_engine_version" \in DOMAIN properties
              /\ properties["unreal_exec_path"] # <<>>
              /\ canon(properties["unreal_exec_path"]) \in Files \cup Directories
        /\ (settings["Unreal Engine Path"] = <<>> /\ scanned = <<>>) => validateExit = "exec"
        /\ (settings["Unreal Engine Path"] # <<>>
            /\ canon(settings["Unreal Engine Path"]) \notin Files \cup Directories) =>
              validateExit = "exec"

C10_Witness ==
    /\ validateExit = "exec"
    /\ settings["Unreal Engine Path"] = <<>>
    /\ scanned # <<>>

C10_WitnessSet ==
    /\ validateExit = "ok"
    /\ settings["Unreal Engine Path"] = <<>>
    /\ properties["unreal_exec_path"] = UE426Exe

AfterExec == AfterDerivation \ {"exec"}

\* the project path get_unreal_project_property resolves: the configured one,
\* or the template evaluated with the version recorded on the item
ResolvedProjectPath ==
    IF settings["Unreal Project Path"] # <<>>
    THEN settings["Unreal Project Path"]
    ELSE evaluate_unreal_project_path(settings["Unreal Project Path Template"],
                                      properties["unreal_engine_version"])

\* C11: get_unreal_project_property either raises and leaves
\* unreal_project_path unset, or sets it to an existing file; it raises when no
\* project path is configured and the template evaluates to nothing, and when
\* the resolved path is not a file.
C11_ProjectProperty ==
    (ValidateCalled /\ validateExit \in AfterExec) =>
        /\ validateExit = "project" =>
              /\ validateRet = "raised"
              /\ "unreal_project_path" \notin DOMAIN properties
        /\ validateExit # "project" =>
              /\ "unreal_project_path" \in DOMAIN properties
              /\ properties["unreal_project_path"] = ResolvedProjectPath
              /\ canon(properties["unreal_project_path"]) \in Files
        /\ (ResolvedProjectPath = <<>> \/ canon(ResolvedProjectPath) \notin Files) =>
              validateExit = "project"

C11_Witness ==
    /\ validateExit = "project"
    /\ settings["Unreal Project Path"] = UserProjectDir

C11_WitnessTemplate ==
    /\ validateExit = "ok"
    /\ settings["Unreal Project Path"] = <<>>
    /\ properties["unreal_project_path"] # <<>>

-----------------------------------------------------------------------------
(* publish and finalize *)

PublishCalled == publishRet # "none"

Renderers == {"render_movie_render_queue", "render_sequencer"}
TrackingCalls == {"base_publish", "create_version", "upload"}

CallsOf(ops) == {i \in 1..Len(calls) : calls[i].op \in ops}

\* the manifest of the copied project, as publish looks for it
ManifestOnDisk ==
    \E q \in disk : Len(q) >= 3 /\ SubSeq(q, Len(q) - 2, Len(q)) = <<"QueueManifest", ".", "utxt">>

\* C12: the setup script runs before any render; once it ran exactly one
\* renderer is invoked, the Movie Render Queue one exactly when the manifest is
\* in the copied project; base publish, Version creation and upload come only
\* after the render.
C12_SetupThenOneRender ==
    PublishCalled =>
        /\ \A i \in CallsOf(Renderers) : \E j \in CallsOf({"execute_script"}) : j < i
        /\ CallsOf({"execute_script"}) # {} =>
              /\ Cardinality(CallsOf(Renderers)) = 1
              /\ CallsOf({"render_movie_render_queue"}) # {} <=> ManifestOnDisk
        /\ \A i \in CallsOf(TrackingCalls) : \E j \in CallsOf(Renderers) : j < i

C12_Witness ==
    /\ publishRet = "returned"
    /\ ManifestOnDisk
    /\ CallsOf({"render_movie_render_queue"}) # {}
    /\ CallsOf(TrackingCalls) # {}

C12_WitnessSequencer ==
    /\ publishRet = "returned"
    /\ ~ManifestOnDisk
    /\ CallsOf({"render_sequencer"}) # {}

\* the movie path handed to the renderer is not on disk after the render
MovieAbsentAfterRender ==
    /\ CallsOf(Renderers) # {}
    /\ \A i \in CallsOf(Renderers) : canon(calls[i].path) \notin disk

\* C13: when the movie is absent at the publish path after the renderer
\* returned, publish raises and neither registers the file, nor creates the
\* Version, nor uploads, nor writes local property 'sg_publish_data'.
C13_MovieMissingRaises ==
    MovieAbsentAfterRender =>
        /\ publishRet = "raised"
        /\ publishExit = "movie_missing"
        /\ CallsOf(TrackingCalls) = {}
        /\ sg = {}
        /\ "sg_publish_data" \notin DOMAIN local_properties

C13_Witness ==
    /\ MovieAbsentAfterRender
    /\ publishRet = "raised"
    /\ \E i \in CallsOf(Renderers) : calls[i].launched

\* the kinds of records the tracking service holds for the item
EffectTypes == {e.type : e \in sg}

\* C14 as stated: a publish that failed left no tracking-service effect.
C14_Original == publishRet = "raised" => sg = {}

\* C14: a publish that fails up to and including the base publish leaves no
\* tracking-service effect; a failed Version creation leaves the registered
\* published file, and a failed upload leaves the published file and the
\* Version: nothing is rolled back.
C14_FailureEffects ==
    publishRet = "raised" =>
        EffectTypes = CASE publishExit = "create_version" -> {"PublishedFile"}
                        [] publishExit = "upload" -> {"PublishedFile", "Version"}
                        [] OTHER -> {}

C14_Witness ==
    /\ publishRet = "raised"
    /\ publishExit = "upload"
    /\ EffectTypes = {"PublishedFile", "Version"}

\* the upstream FBX and what the engine was told to import
UpstreamFbxPath == get_local_path(parent_properties["sg_fbx_publish_data"])
FbxHandedToEngine == calls[1].env["UNREAL_SG_FBX_OUTPUT_PATH"]

ReusesUpstreamFbx ==
    /\ PublishCalled
    /\ Get(parent_properties, "sg_fbx_publish_data") # <<>>
    /\ CallsOf({"execute_script"}) # {}

\* C15 as stated: with an upstream FBX, the engine gets a copy only if the file
\* name has a non-word character, and the published path itself when the name
\* is made of word characters only.
C15_Original ==
    ReusesUpstreamFbx =>
        (FbxHandedToEngine = UpstreamFbxPath
            <=> ~re_search_non_word(os_path_splitext_root(os_path_basename(UpstreamFbxPath))))

PublishStep == publishRet = "none" /\ publishRet' # "none"

\* C16: a publish call leaves the parent item's 'sg_publish_data' as it found
\* it, whether the base publish returned or raised: the same value when it was
\* there before the call, absent when it was absent.
C16_ParentRestored ==
    [][PublishStep =>
          /\ ("sg_publish_data" \in DOMAIN parent_properties')
                 <=> ("sg_publish_data" \in DOMAIN parent_properties)
          /\ Get(parent_properties', "sg_publish_data")
                 = Get(parent_properties, "sg_publish_data")]_vars

C16_Witness ==
    /\ ReusesUpstreamFbx
    /\ publishExit = "base_publish"
    /\ Get(parent_properties, "sg_publish_data") = ParentPublish

C16_WitnessAbsent ==
    /\ ReusesUpstreamFbx
    /\ publishRet = "returned"
    /\ "sg_publish_data" \notin DOMAIN parent_properties

EngineCalls == CallsOf({"execute_script"} \cup Renderers)

\* C17: every engine invocation of a publish call (setup script, Movie Render
\* Queue render, Sequencer render) gets the project file inside the copy made
\* in a temp directory, never the path stored in 'unreal_project_path'.
C17_EngineGetsProjectCopy ==
    \A i \in EngineCalls :
        /\ calls[i].project # properties["unreal_project_path"]
        /\ canon(calls[i].project) \in disk
        /\ canon(os_path_dirname(calls[i].project)) \in disk
        /\ os_path_basename(calls[i].project) = os_path_basename(properties["unreal_project_path"])

C17_Witness ==
    /\ publishRet = "returned"
    /\ Cardinality(EngineCalls) = 2
    /\ properties["unreal_project_path"] = UserProject

FinalizeStep == finalizeRet = "none" /\ finalizeRet' # "none"

\* what is on disk at or below the folder recorded in local property 'temp_folder'
InTempFolder(d) ==
    {q \in d : IsPrefix(canon(Get(local_properties, "temp_folder")), q)}

C18_WitnessDebug ==
    /\ finalizeRet = "returned"
    /\ log_level = logging_DEBUG
    /\ canon(Get(local_properties, "temp_folder")) \in disk

\* the temp directories of the publish call that are still on disk
TempDirsLeft == {q \in disk : \E i \in 1..Len(q) : q[i] = "AppData"}

CleanFinalize == finalizeRet = "returned" /\ log_level > logging_DEBUG

EndsWith(q, suffix) ==
    Len(q) >= Len(suffix) /\ SubSeq(q, Len(q) - Len(suffix) + 1, Len(q)) = suffix

\* the publish path publish started from, as the setup script was told
PublishPathAtSetup == calls[1].env["UNREAL_SG_MOVIE_OUTPUT_PATH"]

\* the path the renderer was asked to write
RenderedPath == calls[2].path

VersionPaths == {e.path : e \in {x \in sg : x.type = "Version"}}

\* C20: with the Movie Render Queue a publish path ending in '.avi' is
\* rendered with '.mov' in its place, and that path is the one stored in local
\* property 'publish_path', looked for on disk and recorded on the Version;
\* with the Sequencer the publish path is used as it was.
C20_MovExtension ==
    CallsOf(Renderers) # {} =>
        /\ IF calls[2].op = "render_movie_render_queue"
           THEN /\ IF EndsWith(PublishPathAtSetup, <<".", "avi">>)
                   THEN /\ EndsWith(RenderedPath, <<".", "mov">>)
                        /\ Len(RenderedPath) = Len(PublishPathAtSetup)
                        /\ SubSeq(RenderedPath, 1, Len(RenderedPath) - 1)
                              = SubSeq(PublishPathAtSetup, 1, Len(PublishPathAtSetup) - 1)
                   ELSE RenderedPath = PublishPathAtSetup
                /\ local_properties["publish_path"] = RenderedPath
           ELSE /\ RenderedPath = PublishPathAtSetup
                /\ os_path_normpath(get_publish_path(properties, local_properties))
                      = PublishPathAtSetup
        /\ publishExit = "movie_missing" <=> canon(RenderedPath) \notin disk
        /\ VersionPaths \subseteq {RenderedPath}

C20_Witness ==
    /\ publishRet = "returned"
    /\ calls[2].op = "render_movie_render_queue"
    /\ EndsWith(PublishPathAtSetup, <<".", "avi">>)
    /\ VersionPaths = {local_properties["publish_path"]}

C20_WitnessSequencer ==
    /\ publishRet = "returned"
    /\ calls[2].op = "render_sequencer"
    /\ EndsWith(PublishPathAtSetup, <<".", "avi">>)
    /\ VersionPaths = {PublishPathAtSetup}

-----------------------------------------------------------------------------
(* environment, helpers, fallbacks *)

SetupVariables == {"UNREAL_SG_FBX_OUTPUT_PATH", "UNREAL_SG_ASSETS_PATH", "UNREAL_SG_MAP_PATH",
                   "UNREAL_SG_SEQUENCE_PATH", "UNREAL_SG_MOVIE_OUTPUT_PATH"}

\* the setup script got the host environment plus exactly the five variables
SetupEnvIsHostPlusFive ==
    LET env == calls[1].env
    IN  /\ DOMAIN env = DOMAIN HostEnviron \cup SetupVariables
        /\ \A k \in DOMAIN HostEnviron : env[k] = HostEnviron[k]
        /\ env["UNREAL_SG_FBX_OUTPUT_PATH"] # <<>>
        /\ env["UNREAL_SG_ASSETS_PATH"] = properties["turntable_assets_path"]
        /\ env["UNREAL_SG_MAP_PATH"] = properties["turntable_map_path"]
        /\ env["UNREAL_SG_SEQUENCE_PATH"] = properties["sequence_path"]
        /\ env["UNREAL_SG_MOVIE_OUTPUT_PATH"] # <<>>

\* C21 as stated: the setup script gets the host environment plus exactly the
\* five UNREAL_SG_ variables, and the host process's own environment is left
\* as it was.
C21_Original ==
    CallsOf({"execute_script"}) # {} =>
        /\ SetupEnvIsHostPlusFive
        /\ os_environ = HostEnviron

\* all the dot-separated components of a version string
Components(v) == split(v, ".", -1)

\* C22: _short_version is idempotent; its result is the first two
\* dot-separated components of the version when there are more than two, and
\* the version itself otherwise.
C22_ShortVersion ==
    call_fn = "_short_version" =>
        /\ _short_version(call_result) = call_result
        /\ IF Len(Components(call_arg)) > 2
           THEN call_result = Components(call_arg)[1] \o <<".">> \o Components(call_arg)[2]
           ELSE call_result = call_arg

C22_Witness ==
    /\ call_fn = "_short_version"
    /\ call_arg = <<"5", ".", "0", ".", "2">>
    /\ call_result = <<"5", ".", "0">>

C22_WitnessShort ==
    /\ call_fn = "_short_version"
    /\ call_arg = <<"5">>
    /\ call_result = <<"5">>

Placeholders == {"{config}", "{engine}", "{unreal_engine_version}", "{self}"}

\* the runtime value of each placeholder, for a version
PlaceholderValue(token, version) ==
    CASE token = "{config}" -> ConfigDir
      [] token = "{engine}" -> EngineDir
      [] token = "{self}" -> FrameworkDir
      [] OTHER -> join(".", SubSeq(Components(version), 1,
                                   IF Len(Components(version)) < 2 THEN Len(Components(version))
                                   ELSE 2))

SubstitutionOrders ==
    {o \in [1..4 -> Placeholders] : \A i, j \in 1..4 : o[i] = o[j] => i = j}

\* the four substitutions applied in the given order
RECURSIVE SubstituteInOrder(_, _, _)
SubstituteInOrder(template, version, order) ==
    IF order = <<>> THEN template
    ELSE SubstituteInOrder(replace(template, Head(order), PlaceholderValue(Head(order), version)),
                           version, Tail(order))

EvaluateCalled == call_fn = "evaluate_unreal_project_path"

EvaluateReturnsNone == call_arg[1] = <<>> \/ call_arg[2] = <<>>

ResultIsOrderFree ==
    /\ Range(call_result) \cap Placeholders = {}
    /\ \A order \in SubstitutionOrders :
          call_result = os_path_normpath(SubstituteInOrder(call_arg[1], call_arg[2], order))

\* C23 as stated: all four placeholders are replaced, in whatever order, and
\* the result is None for an empty template or version.
C23_Original ==
    EvaluateCalled =>
        IF EvaluateReturnsNone THEN call_result = <<>> ELSE ResultIsOrderFree

\* C23: the result is None for an empty template or version; otherwise the
\* placeholders are replaced in the order {config}, {engine},
\* {unreal_engine_version}, {self}, and when the version holds no placeholder
\* itself the result holds none and is the same for every order.
C23_Substitution ==
    EvaluateCalled =>
        IF EvaluateReturnsNone THEN call_result = <<>>
        ELSE /\ call_result = os_path_normpath(SubstituteInOrder(call_arg[1], call_arg[2],
                    <<"{config}", "{engine}", "{unreal_engine_version}", "{self}">>))
             /\ Range(call_arg[2]) \cap Placeholders = {} => ResultIsOrderFree

C23_Witness ==
    /\ EvaluateCalled
    /\ call_arg[1] = <<"{self}", "/", "{engine}", "/", "{unreal_engine_version}", "/", "{config}">>
    /\ call_arg[2] = <<"5", ".", "0", ".", "2">>
    /\ ResultIsOrderFree

C23_WitnessNone ==
    /\ EvaluateCalled
    /\ call_arg[1] # <<>>
    /\ call_arg[2] = <<>>
    /\ call_result = <<>>

Occurrences(seq, v) == Cardinality({i \in 1..Len(seq) : seq[i] = v})

\* C24: get_unreal_versions returns the scanned versions reordered: every
\* non-dev build before every '(Dev Build)' one, the scan order kept within
\* each group, nothing dropped and nothing duplicated.
C24_StablePartition ==
    call_fn = "get_unreal_versions" =>
        /\ \A i, j \in 1..Len(call_result) :
              (IsDevBuild(call_result[i]) /\ IsNotDevBuild(call_result[j])) => j < i
        /\ SelectSeq(call_result, IsNotDevBuild) = SelectSeq(call_arg, IsNotDevBuild)
        /\ SelectSeq(call_result, IsDevBuild) = SelectSeq(call_arg, IsDevBuild)
        /\ \A v \in ScannedVersions : Occurrences(call_result, v) = Occurrences(call_arg, v)

C24_Witness ==
    /\ call_fn = "get_unreal_versions"
    /\ Len(call_arg) = 3
    /\ IsDevBuild(call_arg[1]) /\ IsNotDevBuild(call_arg[2]) /\ IsDevBuild(call_arg[3])
    /\ call_arg[1] # call_arg[3]
    /\ call_result = <<call_arg[2], call_arg[1], call_arg[3]>>

\* C25 as stated: for the same scene name, publishes at different (hour,
\* minute, second) values get different temp FBX file names.
C25_Original ==
    call_fn = "temp_fbx_name" =>
        (call_arg[1] # call_arg[2] => call_result[1] # call_result[2])

\* validate took the workspace branch: the session is saved and the work
\* template or the publish template is missing
WorkspaceBranch == ValidateCalled /\ session_path # <<>> /\ ~UsesTemplates

SessionBaseName ==
    CASE session_path = <<"/", "proj", "/", "foo", "_v", "3", ".", "ma">> -> <<"foo", "_v", "3">>
      [] session_path = <<"/", "tmp", "/", "foo", ".", "ma">> -> <<"foo">>
      [] OTHER -> <<>>

\* <workspace>/<movie rule, or data>/publishes/<base name>.<avi on win32, mov elsewhere>
WorkspacePublishPath ==
    workspace \o <<"/">> \o (IF movie_rule # <<>> THEN movie_rule ELSE <<"data">>)
        \o <<"/", "publishes", "/">> \o SessionBaseName
        \o <<".", IF platform = "win32" THEN "avi" ELSE "mov">>

\* C26: without the work template or the publish template, validate derives
\* the publish path as <workspace movie directory, or 'data'>/publishes/
\* <session base name>.<avi on win32, mov elsewhere>; with no workspace open it
\* returns False and sets no 'publish_path'.
C26_WorkspacePublishPath ==
    WorkspaceBranch =>
        IF workspace = <<>>
        THEN /\ validateRet = "False"
             /\ validateExit = "workspace"
             /\ "publish_path" \notin DOMAIN local_properties
        ELSE /\ "publish_path" \in DOMAIN local_properties
             /\ canon(local_properties["publish_path"]) = canon(WorkspacePublishPath)

C26_Witness ==
    /\ WorkspaceBranch
    /\ workspace # <<>>
    /\ movie_rule = <<"movies">>
    /\ platform = "win32"
    /\ canon(local_properties["publish_path"])
          = <<"/", "ws", "/", "movies", "/", "publishes", "/", "foo", ".", "avi">>

C26_WitnessNoWorkspace ==
    /\ WorkspaceBranch
    /\ workspace = <<>>
    /\ validateRet = "False"

MajorMinor(v) ==
    IF Len(Components(v)) > 2 THEN Components(v)[1] \o <<".">> \o Components(v)[2] ELSE v

\* the exec path was picked among the detected versions
ExecPicked ==
    /\ ValidateCalled
    /\ settings["Unreal Engine Path"] = <<>>
    /\ "unreal_exec_path" \in DOMAIN properties

Detected == get_unreal_versions(scanned)

MatchingDetected ==
    {i \in 1..Len(Detected) :
        MajorMinor(Detected[i].version) = MajorMinor(settings["Unreal Engine Version"])}

\* C27: with no engine path configured, the first detected version with the
\* configured major.minor is selected and the configured version string kept;
\* when none matches, the first detected version is selected and its own
\* version string recorded. A project path derived from the template in the
\* same validate call is evaluated with the recorded version.
C27_VersionSelection ==
    ExecPicked =>
        /\ IF MatchingDetected # {}
           THEN /\ \E i \in MatchingDetected :
                      /\ \A j \in MatchingDetected : i <= j
                      /\ properties["unreal_exec_path"] = Detected[i].path
                /\ properties["unreal_engine_version"] = settings["Unreal Engine Version"]
           ELSE /\ properties["unreal_exec_path"] = Detected[1].path
                /\ properties["unreal_engine_version"] = Detected[1].version
        /\ (settings["Unreal Project Path"] = <<>> /\ "unreal_project_path" \in DOMAIN properties)
              => properties["unreal_project_path"]
                    = evaluate_unreal_project_path(settings["Unreal Project Path Template"],
                                                   properties["unreal_engine_version"])

C27_Witness ==
    /\ ExecPicked
    /\ MatchingDetected = {}
    /\ settings["Unreal Engine Version"] = <<"4", ".", "26">>
    /\ properties["unreal_engine_version"] = <<"5", ".", "0", ".", "2">>
    /\ settings["Unreal Project Path"] = <<>>
    /\ Get(properties, "unreal_project_path") = Project50

C27_WitnessMatching ==
    /\ ExecPicked
    /\ MatchingDetected # {}
    /\ settings["Unreal Engine Version"] = <<"5", ".", "0", ".", "3">>
    /\ properties["unreal_exec_path"] = UE50Exe

BaseFinalizeCalls == CallsOf({"base_finalize"})

\* C28: when finalize hands over to the base finalize, the shared property
\* 'sg_publish_data' is the record this plugin kept in local property
\* 'sg_publish_data', also when another plugin overwrote the shared property
\* after this plugin's publish.
C28_SharedRecordRestored ==
    BaseFinalizeCalls # {} =>
        /\ properties["sg_publish_data"] = local_properties["sg_publish_data"]
        /\ \A i \in BaseFinalizeCalls :
              calls[i].path = get_local_path(local_properties["sg_publish_data"])

C28_Witness ==
    /\ BaseFinalizeCalls # {}
    /\ CallsOf({"other_publish"}) # {}
    /\ properties["sg_publish_data"] # OtherPublish
    /\ properties["sg_publish_data"] = local_properties["sg_publish_data"]

\* C29 as stated: when publish completes without error, the movie it
\* registered and uploaded was written by the renderer launched in that call;
\* a file already at the publish path before the render is never taken for it.
C29_Original == publishRet = "returned" => movie_origin = "rendered"

FinalizeCalled == finalizeRet # "none"

\* C30 as stated: a finalize that follows a publish which returned without
\* raising completes without error; after a failed FBX export the local
\* property 'sg_publish_data' finalize reads is there.
C30_Original ==
    FinalizeCalled =>
        /\ finalizeRet = "returned"
        /\ "sg_publish_data" \in DOMAIN local_properties

====
